---------------------------- MODULE Spec2Model ----------------------------
(***************************************************************************)
(* A model of calendar_cli: the `ask` chat session (cli.py), the direct    *)
(* commands quick-create, list-calendars, show-profile, init-profile and   *)
(* init-system-prompt (cli.py), the profile summary and the starter        *)
(* profile (profile.py), the system-prompt override and its starter file   *)
(* (system_prompt.py).                                                     *)
(*                                                                         *)
(* Text is a sequence of tokens.  A token is a string: one character       *)
(* (" ", "\n", "e", "E", ...) or one opaque piece of text.  The Turkish    *)
(* literals of the source are written in ASCII.                            *)
(*                                                                         *)
(* The agent returned by create_react_agent (agent.py:37) is a graph of    *)
(* the langgraph library, whose code is not part of the repository.  Its   *)
(* loop is modelled from sections 4.2, 4.3 and 5 of the specification      *)
(* (the definitions whose names start with Runtime, and ToolResult).       *)
(***************************************************************************)
EXTENDS Integers, Sequences, FiniteSets, TLC

VARIABLES
    command,              \* the typer command this process runs
    pc,                   \* the position of the command
    api_key,              \* whether GOOGLE_API_KEY is set
    prompt_arg,           \* ask: the `prompt` argument (<<>> when not given)
    override_file,        \* system_prompt.md: [present, text]
    profile_file,         \* user_profile.yaml: [present, valid, the fields]
    clock,                \* the instants the readings of datetime.now() return, in order
    system_instructions,  \* ask: the composed system message text
    messages,             \* ask: the conversation history
    last_messages,        \* ask: [some, msgs], None as [some |-> FALSE]
    user_input,           \* ask: the line read last, as the code normalised it
    raw_line,             \* ask: the line read last, as typed
    g_pc,                 \* the agent graph: its next node
    g_messages,           \* the agent graph: the messages of its state
    next_id,              \* the agent: the next fresh tool call id
    sent,                 \* sent[id]: calendar-service calls made for call id
    llm_calls,            \* submissions of the history to the model
    reads,                \* lines read at a prompt of the ask command
    turns,                \* lines other than exit tokens read at the session prompt
    turn_start,           \* ask: the history handed to the last agent.stream
    failure,              \* the exception that ended the command ("" if none)
    qc_args,              \* quick-create: its arguments
    payload,              \* quick-create: [built, the payload fields]
    service_calls,        \* tool.invoke calls made by the direct commands
    output,               \* what the direct command printed
    path,                 \* init-profile, init-system-prompt: [arg, env], the --path
                          \* option and the environment variable of the default path
    runs,                 \* processes started before this one
    composed              \* the compositions of system instructions made so far:
                          \* records of their inputs and their text

vars == <<command, pc, api_key, prompt_arg, override_file, profile_file, clock,
          system_instructions, messages, last_messages, user_input, raw_line,
          g_pc, g_messages, next_id, sent, llm_calls, reads, turns, turn_start,
          failure, qc_args, payload, service_calls, output, path, runs,
          composed>>

---------------------------------------------------------------------------
(* Bounds of the model.                                                    *)

MaxReads == 1      \* lines other than exit tokens read at the session prompt
MaxCallIds == 2    \* tool calls issued over the whole session
MaxCalls == 2      \* tool calls in one assistant message
MaxTick == 1       \* seconds the clock may advance between two readings of it

---------------------------------------------------------------------------
(* Text: str.strip, str.lower, str.join.                                   *)

Whitespace == {" ", "\n", "\t"}

LowerChar(c) ==
    CASE c = "E" -> "e" [] c = "X" -> "x" [] c = "I" -> "i" [] c = "T" -> "t"
      [] c = "Q" -> "q" [] c = "U" -> "u" [] OTHER -> c

\* str.lower()
Lower(s) == [i \in 1..Len(s) |-> LowerChar(s[i])]

RECURSIVE LStrip(_)
LStrip(s) ==
    IF s # <<>> /\ Head(s) \in Whitespace THEN LStrip(Tail(s)) ELSE s

RECURSIVE RStrip(_)
RStrip(s) ==
    IF s # <<>> /\ s[Len(s)] \in Whitespace
    THEN RStrip(SubSeq(s, 1, Len(s) - 1)) ELSE s

\* str.strip()
Strip(s) == RStrip(LStrip(s))

\* sep.join(parts): parts is a sequence of texts
RECURSIVE Join(_, _)
Join(sep, parts) ==
    IF parts = <<>> THEN <<>>
    ELSE IF Len(parts) = 1 THEN parts[1]
    ELSE parts[1] \o sep \o Join(sep, Tail(parts))

IsPrefix(s, t) == Len(s) <= Len(t) /\ SubSeq(t, 1, Len(s)) = s

---------------------------------------------------------------------------
(* profile.py                                                              *)

\* A UserProfile.  A field that is None, "" , [] or {} is the empty
\* sequence: the code only tests the field's truth value.  timezone, lunch
\* and notes are texts; workdays, no_meetings, preferred_deep_work and
\* avoid_times are sequences of texts; working_hours is a sequence of
\* <<day, window>> pairs in the mapping's own order.
ProfileFields == {"timezone", "workdays", "working_hours", "lunch",
                  "no_meetings", "preferred_deep_work", "avoid_times", "notes"}

FullValue(f) ==
    CASE f = "timezone" -> <<"Europe/Istanbul">>
      [] f = "workdays" -> << <<"mon">>, <<"tue">> >>
      [] f = "working_hours" -> << << <<"mon">>, <<"09:00-18:00">> >>,
                                   << <<"tue">>, <<"10:00-17:00">> >> >>
      [] f = "lunch" -> <<"12:30-13:30">>
      [] f = "no_meetings" -> << <<"Fri 14:00-16:00">> >>
      [] f = "preferred_deep_work" -> << <<"09:00-11:00">>, <<"16:00-18:00">> >>
      [] f = "avoid_times" -> << <<"18:00-21:00">> >>
      [] OTHER -> <<"late">>

\* The profile whose non-empty fields are exactly `set`.
ProfileWith(set) == [f \in ProfileFields |-> IF f \in set THEN FullValue(f) ELSE <<>>]

\* One bullet of the summary: <<line>> when the field is non-empty, else <<>>.
TimezoneBullet(profile) ==
    IF profile["timezone"] # <<>>
    THEN << <<"- Zaman dilimi: ">> \o profile["timezone"] >> ELSE <<>>

WorkdaysBullet(profile) ==
    IF profile["workdays"] # <<>>
    THEN << <<"- Calisma gunleri: ">> \o Join(<<", ">>, profile["workdays"]) >>
    ELSE <<>>

WorkingHoursBullet(profile) ==
    IF profile["working_hours"] # <<>>
    THEN << <<"- Calisma saatleri: ">>
            \o Join(<<"; ">>,
                    [i \in 1..Len(profile["working_hours"]) |->
                        profile["working_hours"][i][1] \o <<": ">>
                        \o profile["working_hours"][i][2]]) >>
    ELSE <<>>

LunchBullet(profile) ==
    IF profile["lunch"] # <<>>
    THEN << <<"- Ogle arasi: ">> \o profile["lunch"] >> ELSE <<>>

NoMeetingsBullet(profile) ==
    IF profile["no_meetings"] # <<>>
    THEN << <<"- Toplanti kacinma: ">> \o Join(<<"; ">>, profile["no_meetings"]) >>
    ELSE <<>>

DeepWorkBullet(profile) ==
    IF profile["preferred_deep_work"] # <<>>
    THEN << <<"- Derin odak tercihleri: ">>
            \o Join(<<"; ">>, profile["preferred_deep_work"]) >>
    ELSE <<>>

AvoidTimesBullet(profile) ==
    IF profile["avoid_times"] # <<>>
    THEN << <<"- Kacinilacak saatler: ">> \o Join(<<"; ">>, profile["avoid_times"]) >>
    ELSE <<>>

\* A summary that tests lunch before working_hours and renders notes too.
SummaryLinesReordered(profile) ==
    << <<"Kullanici Profili:">> >>
    \o TimezoneBullet(profile) \o WorkdaysBullet(profile)
    \o LunchBullet(profile) \o WorkingHoursBullet(profile)
    \o NoMeetingsBullet(profile) \o DeepWorkBullet(profile)
    \o AvoidTimesBullet(profile)
    \o (IF profile["notes"] # <<>>
        THEN << <<"- Notlar: ">> \o profile["notes"] >> ELSE <<>>)

\* the `lines` list of summarize_profile_for_system
SummaryLines(profile) ==
    << <<"Kullanici Profili:">> >>
    \o TimezoneBullet(profile) \o WorkdaysBullet(profile)
    \o WorkingHoursBullet(profile) \o LunchBullet(profile)
    \o NoMeetingsBullet(profile) \o DeepWorkBullet(profile)
    \o AvoidTimesBullet(profile)

summarize_profile_for_system(profile) == Join(<<"\n">>, SummaryLines(profile))

\* load_user_profile: None ([present |-> FALSE]) when the file is missing or
\* does not validate, else the UserProfile.
load_user_profile(file) ==
    IF file.present /\ file.valid
    THEN [present |-> TRUE, fields |-> file.fields]
    ELSE [present |-> FALSE, fields |-> ProfileWith({})]

---------------------------------------------------------------------------
(* system_prompt.py                                                        *)

\* load_system_prompt: None ([present |-> FALSE]) when the file is missing
\* or unreadable, else its whole content.
load_system_prompt(file) ==
    IF file.present /\ file.readable
    THEN [present |-> TRUE, text |-> file.text]
    ELSE [present |-> FALSE, text |-> <<>>]

---------------------------------------------------------------------------
(* cli.py, ask: the system instructions (lines 97-141).                    *)

\* A datetime is [instant, zone]: seconds after the process started, and
\* the zone it is expressed in.
KnownZones == {"Europe/Istanbul"}

SystemZone == "CET"

UtcHour == 2       \* the UTC hour of day while the process runs

OffsetHours(zone) ==
    CASE zone = "Europe/Istanbul" -> 3 [] zone = "CET" -> 1 [] OTHER -> 0

ZoneAbbr(zone) ==
    CASE zone = "Europe/Istanbul" -> "+03" [] zone = "CET" -> "CET" [] OTHER -> "UTC"

OffsetText(zone) ==
    CASE zone = "Europe/Istanbul" -> "+0300" [] zone = "CET" -> "+0100"
      [] OTHER -> "+0000"

HourText == <<"00", "01", "02", "03", "04", "05", "06", "07", "08">>

SecondText == <<"00", "01", "02", "03", "04", "05">>

\* dt.strftime('%Y-%m-%d %H:%M:%S %Z%z')
strftime(dt) ==
    <<"2025-01-01", " ", HourText[UtcHour + OffsetHours(dt.zone) + 1], ":00:",
      SecondText[dt.instant + 1], " ", ZoneAbbr(dt.zone), OffsetText(dt.zone)>>

\* lines 99-108: datetime.now(ZoneInfo(name)) when the profile names a
\* timezone, datetime.now().astimezone() when it names none or ZoneInfo
\* raises on the name.
now_local(user_profile, instant) ==
    LET name == IF user_profile.present THEN user_profile.fields["timezone"] ELSE <<>>
    IN  [instant |-> instant,
         zone |-> IF name # <<>> /\ Len(name) = 1 /\ name[1] \in KnownZones
                  THEN name[1] ELSE SystemZone]

\* line 109
now_utc(instant) == [instant |-> instant, zone |-> "UTC"]

\* lines 111-113
profile_note(user_profile) ==
    IF user_profile.present
    THEN <<"\n", "\n">> \o summarize_profile_for_system(user_profile.fields)
    ELSE <<>>

RoleText == "ROLE_AND_POLICY_TEXT\n\n"     \* the literal of lines 117-134

LocalLabel == "Su anki tarih-saat (yerel): "

UtcLabel == "Su anki tarih-saat (UTC):   "

\* Generated instructions that also quote the prompt the command was given.
GeneratedQuotingPrompt(local, utc, user_profile) ==
    <<RoleText, LocalLabel>> \o strftime(local) \o <<"\n", UtcLabel>>
    \o strftime(utc) \o profile_note(user_profile) \o prompt_arg

\* lines 116-138: the generated instructions
GeneratedInstructions(local, utc, user_profile) ==
    <<RoleText, LocalLabel>> \o strftime(local) \o <<"\n", UtcLabel>>
    \o strftime(utc) \o profile_note(user_profile)

\* An external prompt that replaces the generated instructions.
ComposeReplacing(external_prompt, generated) ==
    IF external_prompt.present /\ external_prompt.text # <<>>
    THEN Strip(external_prompt.text)
    ELSE generated

\* lines 139-141
ComposeSystemInstructions(external_prompt, generated) ==
    IF external_prompt.present /\ external_prompt.text # <<>>
    THEN Strip(external_prompt.text) \o <<"\n", "\n">> \o generated
    ELSE generated

---------------------------------------------------------------------------
(* Messages.                                                               *)

\* A message of the history.  form is "tuple" for the (role, text) pairs
\* cli.py builds and "object" for the message objects of the agent graph.
Message(role, content, tool_calls, tool_call_id, form) ==
    [role |-> role, content |-> content, tool_calls |-> tool_calls,
     tool_call_id |-> tool_call_id, form |-> form]

\* ("system", text) and ("user", text), lines 145 and 166
SystemTuple(text) == Message("system", text, <<>>, 0, "tuple")

UserTuple(text) == Message("user", text, <<>>, 0, "tuple")

None == [some |-> FALSE, msgs |-> <<>>]

Some(msgs) == [some |-> TRUE, msgs |-> msgs]

\* What a message says, whatever its form.
View(m) == [role |-> m.role, content |-> m.content,
            tool_calls |-> m.tool_calls, tool_call_id |-> m.tool_call_id]

Views(msgs) == [i \in 1..Len(msgs) |-> View(msgs[i])]

---------------------------------------------------------------------------
(* The agent runtime: the graph built at agent.py:37, modelled from the    *)
(* specification (sections 4.2, 4.3 and 5).                                *)

ToolNames == {"create_calendar_event", "get_calendars_info"}

\* What the model may ask for in one tool call.
CallKinds ==
    { [name |-> "create_calendar_event", args |-> "valid"],
      [name |-> "create_calendar_event", args |-> "bad_color"],
      [name |-> "no_such_tool", args |-> "valid"] }

\* The graph takes the submitted messages as message objects.
RuntimeCoerce(msgs) == [i \in 1..Len(msgs) |-> [msgs[i] EXCEPT !.form = "object"]]

\* The tool calls of one assistant message: kinds[k] gets the id first + k - 1.
RuntimeToolCalls(kinds, first) ==
    [k \in 1..Len(kinds) |-> [id |-> first + k - 1, name |-> kinds[k].name,
                              args |-> kinds[k].args]]

\* The assistant message the runtime returns: a final answer (no kinds) or
\* tool calls, never both.
RuntimeAssistant(kinds, first) ==
    IF kinds = <<>>
    THEN Message("assistant", <<"answer">>, <<>>, 0, "object")
    ELSE Message("assistant", <<>>, RuntimeToolCalls(kinds, first), 0, "object")

\* The tool calls of the last assistant message of msgs that have no
\* tool-result message yet, in the order they were issued.
RuntimePending(msgs) ==
    IF \A i \in 1..Len(msgs) : msgs[i].role # "assistant" THEN <<>>
    ELSE LET last == CHOOSE i \in 1..Len(msgs) :
                        /\ msgs[i].role = "assistant"
                        /\ \A j \in (i + 1)..Len(msgs) : msgs[j].role # "assistant"
             answered == {msgs[j].tool_call_id : j \in (last + 1)..Len(msgs)}
         IN  SelectSeq(msgs[last].tool_calls, LAMBDA c : c.id \notin answered)

\* Whether invoking the call reaches the calendar service: the tool is
\* registered and the arguments pass its schema.
ReachesService(call) == call.name \in ToolNames /\ call.args = "valid"

\* The content of the call's tool-result message; service is the outcome
\* of the calendar-service call ("ok" or "fail") when one is made.
ToolResult(call, service) ==
    IF call.name \notin ToolNames THEN <<"Error: UnknownTool">>
    ELSE IF call.args # "valid" THEN <<"Error: InvalidArguments">>
    ELSE IF service = "ok" THEN <<"event created">>
    ELSE <<"Error: ToolExecutionFailure">>

\* The tool-result message of a call.
RuntimeToolMessage(call, service) ==
    Message("tool", ToolResult(call, service), <<>>, call.id, "object")

---------------------------------------------------------------------------
(* cli.py, ask: the session (lines 78-166).                                *)

ExitTokens == { <<"e", "x", "i", "t">>, <<"q", "u", "i", "t">>, <<"q">> }

\* The lines the user may type at the session prompt.
RawInputs ==
    { <<"e", "x", "i", "t">>, <<" ", "E", "X", "I", "T", " ">>,
      <<"Q", "u", "i", "t">>, <<"q">>,
      <<>>, <<" ", " ">>,
      <<"h", "i">>, <<"q", "u", "i", "t", " ", "i", "t">> }

\* The lines the user may type at the first prompt.
FirstLines == { <<>>, <<"e", "x", "i", "t">>, <<"h", "i">> }

DefaultPrompt == <<"Create a green event for tomorrow 10:00-10:30 named Standup">>

\* rich's Prompt.ask(text, default=default): the default on an empty line,
\* else the line without its surrounding whitespace.
PromptAsk(line, default) == IF line = <<>> THEN default ELSE Strip(line)

\* line 162
IsExit(text) == Lower(text) \in ExitTokens

\* line 151 keeping the first event of the stream only
RememberFirst(last, event_messages) ==
    IF last.some THEN last ELSE Some(event_messages)

\* line 151: last_messages = event["messages"]
Remember(last, event_messages) == Some(event_messages)

\* lines 158-159 keeping the session's list and the final message only
AdoptFinalOnly(msgs, last) ==
    IF last.some /\ last.msgs # <<>>
    THEN Append(msgs, last.msgs[Len(last.msgs)]) ELSE msgs

\* lines 158-159: if last_messages is not None: messages = last_messages
Adopt(msgs, last) == IF last.some THEN last.msgs ELSE msgs

\* line 166 starting the history over with the new line
RestartWithUser(msgs, text) == <<msgs[1], UserTuple(text)>>

\* line 166: messages.append(("user", user_input))
AppendUser(msgs, text) == Append(msgs, UserTuple(text))

\* lines 147-148: last_messages = None; events = agent.stream({"messages": messages})
BeginStream(msgs) ==
    /\ messages' = msgs
    /\ turn_start' = msgs
    /\ last_messages' = None
    /\ g_messages' = RuntimeCoerce(msgs)
    /\ g_pc' = "input"
    /\ pc' = "stream"

\* lines 39-43
require_google_api_key == api_key

DirectVars == <<qc_args, payload, service_calls>>

\* One composition of system instructions (lines 99-141): what it was made
\* from and the text it made.
Composition(local, utc, user_profile, external_prompt, text) ==
    [now_local |-> local, now_utc |-> utc, preferences |-> user_profile,
     override |-> external_prompt, text |-> text, prompt_arg |-> prompt_arg]

\* lines 78-148: the key check, the first prompt when no prompt was given,
\* the system instructions, the seeded history and the first agent.stream.
AskStart ==
    /\ command = "ask" /\ pc = "start"
    /\ IF ~require_google_api_key
       THEN /\ pc' = "exit1"
            /\ output' = <<"GOOGLE_API_KEY not set.">>
            /\ UNCHANGED <<system_instructions, messages, last_messages,
                           user_input, raw_line, g_pc, g_messages, reads,
                           turn_start, composed>>
       ELSE \E line \in (IF prompt_arg = <<>> THEN FirstLines ELSE {<<>>}) :
              LET prompt == IF prompt_arg # <<>> THEN prompt_arg
                            ELSE PromptAsk(line, DefaultPrompt)
                  user_profile == load_user_profile(profile_file)
                  local == now_local(user_profile, clock[1])
                  utc == now_utc(clock[2])
                  external_prompt == load_system_prompt(override_file)
                  generated == GeneratedInstructions(local, utc, user_profile)
                  sys == ComposeSystemInstructions(external_prompt, generated)
              IN  /\ raw_line' = line
                  /\ reads' = IF prompt_arg = <<>> THEN reads + 1 ELSE reads
                  /\ system_instructions' = sys
                  /\ composed' = Append(composed,
                        Composition(local, utc, user_profile, external_prompt, sys))
                  /\ BeginStream(<<SystemTuple(sys), UserTuple(prompt)>>)
                  /\ UNCHANGED <<user_input, output>>
    /\ UNCHANGED <<command, api_key, prompt_arg, override_file, profile_file, clock,
                   path, runs,
                   next_id, sent, llm_calls, turns, failure>>
    /\ UNCHANGED DirectVars

SessionFrame ==
    UNCHANGED <<command, api_key, prompt_arg, override_file, profile_file, clock,
                path, runs, composed,
                system_instructions, output, qc_args, payload, service_calls>>

\* lines 149-156, the first event: the graph yields its state as submitted.
StreamInput ==
    /\ command = "ask" /\ pc = "stream" /\ g_pc = "input"
    /\ last_messages' = Remember(last_messages, g_messages)
    /\ g_pc' = "agent"
    /\ UNCHANGED <<pc, messages, user_input, raw_line, g_messages, next_id, sent,
                   llm_calls, reads, turns, turn_start, failure>>
    /\ SessionFrame

\* lines 149-156, an event of the agent node: the history is submitted to
\* the model, which answers or asks for tool calls.
StreamAssistant ==
    /\ command = "ask" /\ pc = "stream" /\ g_pc = "agent"
    /\ \E n \in 0..MaxCalls :
         /\ next_id + n - 1 <= MaxCallIds
         /\ \E kinds \in [1..n -> CallKinds] :
              LET reply == RuntimeAssistant(kinds, next_id)
                  state == Append(g_messages, reply)
              IN  /\ g_messages' = state
                  /\ last_messages' = Remember(last_messages, state)
                  /\ next_id' = next_id + n
                  /\ g_pc' = IF n = 0 THEN "end" ELSE "tools"
    /\ llm_calls' = llm_calls + 1
    /\ UNCHANGED <<pc, messages, user_input, raw_line, sent, reads, turns,
                   turn_start, failure>>
    /\ SessionFrame

\* The tools node invokes the next pending call; the stream yields nothing
\* until every call of the message is answered.
RuntimeInvokeTool ==
    /\ command = "ask" /\ pc = "stream" /\ g_pc = "tools"
    /\ RuntimePending(g_messages) # <<>>
    /\ LET call == Head(RuntimePending(g_messages))
       IN  \E service \in (IF ReachesService(call) THEN {"ok", "fail"} ELSE {"none"}) :
             /\ g_messages' = Append(g_messages, RuntimeToolMessage(call, service))
             /\ sent' = [sent EXCEPT ![call.id] =
                            IF ReachesService(call) THEN @ + 1 ELSE @]
    /\ UNCHANGED <<pc, messages, last_messages, user_input, raw_line, g_pc, next_id,
                   llm_calls, reads, turns, turn_start, failure>>
    /\ SessionFrame

\* lines 149-156, an event of the tools node: every call is answered.
StreamTools ==
    /\ command = "ask" /\ pc = "stream" /\ g_pc = "tools"
    /\ RuntimePending(g_messages) = <<>>
    /\ last_messages' = Remember(last_messages, g_messages)
    /\ g_pc' = "agent"
    /\ UNCHANGED <<pc, messages, user_input, raw_line, g_messages, next_id, sent,
                   llm_calls, reads, turns, turn_start, failure>>
    /\ SessionFrame

\* lines 148-151 when the runtime fails: agent.stream or the iteration
\* raises (a transport error), or the event has no "messages" (a malformed
\* response) and line 150 raises.  Nothing in ask catches it.
StreamRaises ==
    /\ command = "ask" /\ pc = "stream" /\ g_pc = "agent"
    /\ \E kind \in {"transport", "malformed"} : failure' = kind
    /\ pc' = "crashed"
    /\ g_pc' = "idle"
    /\ UNCHANGED <<messages, last_messages, user_input, raw_line, g_messages,
                   next_id, sent, llm_calls, reads, turns, turn_start>>
    /\ SessionFrame

\* lines 158-159, once the stream is exhausted
StreamEnd ==
    /\ command = "ask" /\ pc = "stream" /\ g_pc = "end"
    /\ messages' = Adopt(messages, last_messages)
    /\ pc' = "prompt"
    /\ g_pc' = "idle"
    /\ UNCHANGED <<last_messages, user_input, raw_line, g_messages, next_id, sent,
                   llm_calls, reads, turns, turn_start, failure>>
    /\ SessionFrame

\* lines 161-166 and, unless the loop breaks, lines 147-148 of the next
\* iteration.
ReadLine ==
    /\ command = "ask" /\ pc = "prompt"
    /\ \E line \in RawInputs :
         LET text == Strip(PromptAsk(line, <<>>))
         IN  /\ raw_line' = line
             /\ user_input' = text
             /\ reads' = reads + 1
             /\ IF IsExit(text)
                THEN /\ pc' = "terminated"
                     /\ UNCHANGED <<messages, last_messages, g_pc, g_messages,
                                    turns, turn_start>>
                ELSE /\ turns < MaxReads
                     /\ turns' = turns + 1
                     /\ IF text = <<>>
                        THEN BeginStream(messages)
                        ELSE BeginStream(AppendUser(messages, text))
    /\ UNCHANGED <<next_id, sent, llm_calls, failure>>
    /\ SessionFrame

---------------------------------------------------------------------------
(* cli.py: quick-create (lines 169-214), list-calendars (217-240) and      *)
(* show-profile (283-291).                                                 *)

UpperChar(c) ==
    CASE c = "u" -> "U" [] c = "t" -> "T" [] c = "c" -> "C" [] OTHER -> c

\* str.upper()
UpperText(s) == [i \in 1..Len(s) |-> UpperChar(s[i])]

\* datetime.strptime(dt, "%Y-%m-%d %H:%M") does not raise
StrptimeOk(dt) == dt \in { <<"2025-01-01 10:00">>, <<"2025-01-01 10:30">> }

\* os.getenv("CLI_DEFAULT_TIMEZONE", "Etc/UTC")
EnvDefaultTimezone(env) == IF env.set THEN env.text ELSE <<"Etc/UTC">>

\* lines 192-197: CLI argument, else profile, else environment, else
\* "Etc/UTC"; stripped, and plain UTC in any case written as Etc/UTC.
ChooseTimezone(timezone, pf, env) ==
    LET from_profile == IF pf.present THEN pf.fields["timezone"] ELSE <<>>
        chosen_tz == IF timezone # <<>> THEN timezone
                     ELSE IF from_profile # <<>> THEN from_profile
                     ELSE EnvDefaultTimezone(env)
        tz == Strip(chosen_tz)
    IN  IF UpperText(tz) = <<"U", "T", "C">> THEN <<"Etc/UTC">> ELSE tz

NoPayload ==
    [built |-> FALSE, summary |-> <<>>, start_datetime |-> <<>>,
     end_datetime |-> <<>>, timezone |-> <<>>, location |-> <<>>,
     description |-> <<>>, color_id |-> <<>>]

\* lines 199-210; a key the code does not set is the empty text.
BuildPayload(args, tz) ==
    [built |-> TRUE, summary |-> args.summary,
     start_datetime |-> args.start \o <<":00">>,
     end_datetime |-> args.end \o <<":00">>,
     timezone |-> tz,
     location |-> args.location,
     description |-> args.description,
     color_id |-> args.color_id]

\* lines 180-210: the key check, the datetime formats, the timezone and the
\* payload.
QuickCreateBuild ==
    /\ command = "quick-create" /\ pc = "start"
    /\ IF ~require_google_api_key
       THEN /\ pc' = "exit1"
            /\ output' = <<"GOOGLE_API_KEY not set.">>
            /\ UNCHANGED payload
       ELSE IF ~StrptimeOk(qc_args.start)
       THEN /\ pc' = "exit1"
            /\ output' = <<"Invalid datetime format:">> \o qc_args.start
            /\ UNCHANGED payload
       ELSE IF ~StrptimeOk(qc_args.end)
       THEN /\ pc' = "exit1"
            /\ output' = <<"Invalid datetime format:">> \o qc_args.end
            /\ UNCHANGED payload
       ELSE /\ pc' = "invoke"
            /\ payload' = BuildPayload(qc_args,
                              ChooseTimezone(qc_args.timezone,
                                             load_user_profile(profile_file),
                                             qc_args.env))
            /\ UNCHANGED output
    /\ UNCHANGED <<command, api_key, prompt_arg, override_file, profile_file, clock,
                   path, runs, composed,
                   system_instructions, messages, last_messages, user_input,
                   raw_line, g_pc, g_messages, next_id, sent, llm_calls, reads,
                   turns, turn_start, failure, qc_args, service_calls>>

\* lines 212-214 invoking the tool a second time after the first call
QuickCreateInvokeTwice ==
    /\ command = "quick-create" /\ pc = "invoke"
    /\ service_calls' = service_calls + 2
    /\ \E outcome \in {"result", "raise"} :
         IF outcome = "raise"
         THEN /\ failure' = "tool_error"
              /\ pc' = "crashed"
              /\ UNCHANGED output
         ELSE /\ output' = <<"Create Event: ">> \o <<"event created">>
              /\ pc' = "done"
              /\ UNCHANGED failure
    /\ UNCHANGED <<command, api_key, prompt_arg, override_file, profile_file, clock,
                   path, runs, composed,
                   system_instructions, messages, last_messages, user_input,
                   raw_line, g_pc, g_messages, next_id, sent, llm_calls, reads,
                   turns, turn_start, qc_args, payload>>

\* lines 212-214: tool.invoke(payload) returns the result, which is
\* printed, or raises (the service rejects the payload, or fails), which
\* nothing in quick_create catches.
QuickCreateInvoke ==
    /\ command = "quick-create" /\ pc = "invoke"
    /\ service_calls' = service_calls + 1
    /\ \E outcome \in {"result", "raise"} :
         IF outcome = "raise"
         THEN /\ failure' = "tool_error"
              /\ pc' = "crashed"
              /\ UNCHANGED output
         ELSE /\ output' = <<"Create Event: ">> \o <<"event created">>
              /\ pc' = "done"
              /\ UNCHANGED failure
    /\ UNCHANGED <<command, api_key, prompt_arg, override_file, profile_file, clock,
                   path, runs, composed,
                   system_instructions, messages, last_messages, user_input,
                   raw_line, g_pc, g_messages, next_id, sent, llm_calls, reads,
                   turns, turn_start, qc_args, payload>>

\* lines 220-240: out is a JSON text of a list, a list, a text that is no
\* JSON or no list, or the tool raises.
ListCalendars ==
    /\ command = "list-calendars" /\ pc = "start"
    /\ IF ~require_google_api_key
       THEN /\ pc' = "exit1"
            /\ output' = <<"GOOGLE_API_KEY not set.">>
            /\ UNCHANGED <<service_calls, failure>>
       ELSE /\ service_calls' = service_calls + 1
            /\ \E out \in {"json_list", "list", "json_other", "not_json", "raise"} :
                 IF out = "raise"
                 THEN /\ failure' = "tool_error"
                      /\ pc' = "crashed"
                      /\ UNCHANGED output
                 ELSE /\ output' = IF out \in {"json_list", "list"}
                                   THEN <<"Calendars", "primary", "id-1">>
                                   ELSE <<"Calendars", "(unparsed)", out>>
                      /\ pc' = "done"
                      /\ UNCHANGED failure
    /\ UNCHANGED <<command, api_key, prompt_arg, override_file, profile_file, clock,
                   path, runs, composed,
                   system_instructions, messages, last_messages, user_input,
                   raw_line, g_pc, g_messages, next_id, sent, llm_calls, reads,
                   turns, turn_start, qc_args, payload>>

\* lines 283-291
ShowProfile ==
    /\ command = "show-profile" /\ pc = "start"
    /\ LET pf == load_user_profile(profile_file)
       IN  output' = IF ~pf.present THEN <<"No profile found.">>
                     ELSE summarize_profile_for_system(pf.fields)
    /\ pc' = "done"
    /\ UNCHANGED <<command, api_key, prompt_arg, override_file, profile_file, clock,
                   path, runs, composed,
                   system_instructions, messages, last_messages, user_input,
                   raw_line, g_pc, g_messages, next_id, sent, llm_calls, reads,
                   turns, turn_start, failure, qc_args, payload, service_calls>>

---------------------------------------------------------------------------
(* profile.py and system_prompt.py: the starter files; cli.py:             *)
(* init-profile (lines 276-280) and init-system-prompt (294-298).          *)
(* profile_file and override_file are the files at the path the command    *)
(* works on.                                                               *)

\* What yaml.safe_load reads from PROFILE_TEMPLATE (profile.py:39-58).
PROFILE_TEMPLATE ==
    [f \in ProfileFields |->
        CASE f = "timezone" -> <<"Europe/Istanbul">>
          [] f = "workdays" -> << <<"mon">>, <<"tue">>, <<"wed">>, <<"thu">>, <<"fri">> >>
          [] f = "working_hours" ->
                << << <<"mon">>, <<"09:00-18:00">> >>, << <<"tue">>, <<"09:00-18:00">> >>,
                   << <<"wed">>, <<"09:00-18:00">> >>, << <<"thu">>, <<"09:00-18:00">> >>,
                   << <<"fri">>, <<"09:00-18:00">> >> >>
          [] f = "lunch" -> <<"12:30-13:30">>
          [] f = "no_meetings" -> << <<"Fri 14:00-16:00">> >>
          [] f = "preferred_deep_work" -> << <<"09:00-11:00">>, <<"16:00-18:00">> >>
          [] f = "avoid_times" -> << <<"18:00-21:00">> >>
          [] OTHER -> <<"Personal preferences: avoid late-night heavy tasks.">>]

\* The file that holds PROFILE_TEMPLATE.strip() + "\n".
StarterProfileFile == [present |-> TRUE, valid |-> TRUE, fields |-> PROFILE_TEMPLATE]

\* system_prompt.py:11-26, a token for each line
DEFAULT_SYSTEM_PROMPT_TEMPLATE ==
    <<"\n", "# System Prompt (You can edit freely)", "\n", "\n",
      "Rol: ...", "\n", "Amac: ...", "\n", "Iletisim: ...", "\n", "\n",
      "Ic kurallar (ozet):", "\n", "- Biyolojik saat: ...", "\n",
      "- Zaman yonetimi: ...", "\n", "- Mola/saglik: ...", "\n",
      "- Surec: ...", "\n", "- Yerlesim: ...", "\n", "\n",
      "Not: ...", "\n">>

\* os.getenv(DEFAULT_PROFILE_ENV_KEY, DEFAULT_PROFILE_PATH)
get_default_profile_path(env) ==
    IF env.set THEN env.text ELSE <<"user_profile.yaml">>

\* os.getenv(DEFAULT_SYSTEM_PROMPT_ENV_KEY, DEFAULT_SYSTEM_PROMPT_PATH)
get_default_system_prompt_path(env) ==
    IF env.set THEN env.text ELSE <<"system_prompt.md">>

\* A writer that opens the target for writing whether or not it exists.
WriteProfileAlways(p, file) ==
    [file |-> StarterProfileFile,
     target_path |-> IF p.arg # <<>> THEN p.arg ELSE get_default_profile_path(p.env)]

\* profile.py:65-72: the file afterwards and the value returned
write_default_profile_template(p, file) ==
    LET target_path == IF p.arg # <<>> THEN p.arg ELSE get_default_profile_path(p.env)
    IN  IF file.present
        THEN [file |-> file, target_path |-> target_path]
        ELSE [file |-> StarterProfileFile, target_path |-> target_path]

\* system_prompt.py:33-39: the file afterwards and the value returned
write_default_system_prompt_template(p, file) ==
    LET target_path == IF p.arg # <<>> THEN p.arg
                       ELSE get_default_system_prompt_path(p.env)
    IN  IF file.present
        THEN [file |-> file, target_path |-> target_path]
        ELSE [file |-> [present |-> TRUE, readable |-> TRUE,
                        text |-> Strip(DEFAULT_SYSTEM_PROMPT_TEMPLATE) \o <<"\n">>],
              target_path |-> target_path]

\* cli.py:276-280
InitProfile ==
    /\ command = "init-profile" /\ pc = "start"
    /\ LET target == write_default_profile_template(path, profile_file)
       IN  /\ profile_file' = target.file
           /\ output' = <<"Profile ready: ">> \o target.target_path
    /\ pc' = "done"
    /\ UNCHANGED <<command, api_key, prompt_arg, override_file, clock, path, runs,
                   composed, system_instructions, messages, last_messages,
                   user_input, raw_line, g_pc, g_messages, next_id, sent,
                   llm_calls, reads, turns, turn_start, failure, qc_args, payload,
                   service_calls>>

\* cli.py:294-298
InitSystemPrompt ==
    /\ command = "init-system-prompt" /\ pc = "start"
    /\ LET target == write_default_system_prompt_template(path, override_file)
       IN  /\ override_file' = target.file
           /\ output' = <<"System prompt ready: ">> \o target.target_path
    /\ pc' = "done"
    /\ UNCHANGED <<command, api_key, prompt_arg, profile_file, clock, path, runs,
                   composed, system_instructions, messages, last_messages,
                   user_input, raw_line, g_pc, g_messages, next_id, sent,
                   llm_calls, reads, turns, turn_start, failure, qc_args, payload,
                   service_calls>>

---------------------------------------------------------------------------
(* The initial states: the command, its arguments, the environment and the *)
(* two optional files.                                                     *)

NoFile == [present |-> FALSE, valid |-> FALSE, fields |-> ProfileWith({})]

ProfileFile(set) == [present |-> TRUE, valid |-> TRUE, fields |-> ProfileWith(set)]

\* A profile whose timezone no zone database knows.
OddZoneFile ==
    [present |-> TRUE, valid |-> TRUE,
     fields |-> [ProfileWith({}) EXCEPT !["timezone"] = <<"Mars/Phobos">>]]

\* A file that is no valid profile.
InvalidFile == [present |-> TRUE, valid |-> FALSE, fields |-> ProfileWith({})]

SomeProfileFiles ==
    {NoFile, ProfileFile({"timezone"}), ProfileFile(ProfileFields)}

AllProfileFiles ==
    {NoFile, InvalidFile, OddZoneFile} \cup {ProfileFile(set) : set \in SUBSET ProfileFields}

NoOverride == [present |-> FALSE, readable |-> FALSE, text |-> <<>>]

Override(text) == [present |-> TRUE, readable |-> TRUE, text |-> text]

SomeOverrideFiles == {NoOverride, Override(<<" ", "MY", " ", "RULES", "\n">>)}

AllOverrideFiles ==
    SomeOverrideFiles
    \cup { Override(<<>>), Override(<<"\n", " ">>), Override(<<"RULES">>),
           Override(<<"\n", "A", "\n", "\n", "B", " ", "\t">>),
           [present |-> TRUE, readable |-> FALSE, text |-> <<"RULES">>] }

NoArgs ==
    [summary |-> <<>>, start |-> <<>>, end |-> <<>>, timezone |-> <<>>,
     env |-> [set |-> FALSE, text |-> <<>>], location |-> <<>>,
     description |-> <<>>, color_id |-> <<>>]

QuickCreateArgs ==
    [summary : {<<"Standup">>},
     start : {<<"2025-01-01 10:00">>, <<"tomorrow">>},
     end : {<<"2025-01-01 10:30">>, <<"10:30">>},
     timezone : {<<>>, <<" ", "u", "t", "c">>, <<"Asia/Tokyo">>},
     env : {[set |-> FALSE, text |-> <<>>], [set |-> TRUE, text |-> <<"U", "T", "C">>]},
     location : {<<>>, <<"Room 1">>},
     description : {<<>>},
     color_id : {<<>>, <<"5">>, <<"99">>}]

Idle ==
    /\ pc = "start"
    /\ system_instructions = <<>>
    /\ messages = <<>>
    /\ last_messages = None
    /\ user_input = <<>>
    /\ raw_line = <<>>
    /\ g_pc = "idle"
    /\ g_messages = <<>>
    /\ next_id = 1
    /\ sent = [id \in 1..(MaxCallIds + 1) |-> 0]
    /\ llm_calls = 0
    /\ reads = 0
    /\ turns = 0
    /\ turn_start = <<>>
    /\ failure = ""
    /\ payload = NoPayload
    /\ service_calls = 0
    /\ output = <<>>
    /\ runs = 0
    /\ composed = <<>>

\* The files of an ask session: <<profile file, override file>>.
SomeFiles ==
    { <<NoFile, NoOverride>>,
      <<ProfileFile({"timezone"}), Override(<<" ", "MY", " ", "RULES", "\n">>)>> }

AllFiles == AllProfileFiles \X AllOverrideFiles

\* The clock read twice: it may advance between the readings.
SteadyClock == { <<0, 0>> }

AnyClock == { <<0, tick>> : tick \in 0..MaxTick }

NoPath == [arg |-> <<>>, env |-> [set |-> FALSE, text |-> <<>>]]

\* The --path option (None and "" are both <<>>) and the environment
\* variable that names the default path.
PathOptions ==
    [arg : {<<>>, <<"my/file">>},
     env : {[set |-> FALSE, text |-> <<>>], [set |-> TRUE, text |-> <<"env/file">>]}]

\* What init-profile may find at its target path.
FoundProfileFiles ==
    {NoFile, InvalidFile, OddZoneFile, ProfileFile({"timezone"}),
     ProfileFile(ProfileFields), StarterProfileFile}

InitWith(files, profiles, clocks) ==
    /\ Idle
    /\ api_key \in BOOLEAN
    /\ \/ /\ command = "ask"
          /\ prompt_arg \in {<<>>, <<"b", "o", "o", "k">>}
          /\ \E pair \in files : profile_file = pair[1] /\ override_file = pair[2]
          /\ clock \in clocks
          /\ qc_args = NoArgs /\ path = NoPath
       \/ /\ command = "quick-create"
          /\ qc_args \in QuickCreateArgs
          /\ profile_file \in SomeProfileFiles
          /\ prompt_arg = <<>> /\ override_file = NoOverride
          /\ clock = <<0, 0>> /\ path = NoPath
       \/ /\ command = "list-calendars"
          /\ qc_args = NoArgs /\ profile_file = NoFile
          /\ prompt_arg = <<>> /\ override_file = NoOverride
          /\ clock = <<0, 0>> /\ path = NoPath
       \/ /\ command = "show-profile"
          /\ profile_file \in profiles
          /\ qc_args = NoArgs
          /\ prompt_arg = <<>> /\ override_file = NoOverride
          /\ clock = <<0, 0>> /\ path = NoPath
       \/ /\ command = "init-profile"
          /\ path \in PathOptions
          /\ profile_file \in FoundProfileFiles
          /\ qc_args = NoArgs
          /\ prompt_arg = <<>> /\ override_file = NoOverride
          /\ clock = <<0, 0>>
       \/ /\ command = "init-system-prompt"
          /\ path \in PathOptions
          /\ override_file \in AllOverrideFiles
          /\ qc_args = NoArgs
          /\ prompt_arg = <<>> /\ profile_file = NoFile
          /\ clock = <<0, 0>>

Init == InitWith(SomeFiles, SomeProfileFiles, SteadyClock)

Next ==
    \/ AskStart \/ StreamInput \/ StreamAssistant \/ RuntimeInvokeTool
    \/ StreamTools \/ StreamRaises \/ StreamEnd \/ ReadLine
    \/ QuickCreateBuild \/ QuickCreateInvoke \/ ListCalendars \/ ShowProfile
    \/ InitProfile \/ InitSystemPrompt

Spec == Init /\ [][Next]_vars

\* The start of the commands that compose or print the prompt texts, over
\* every combination of profile fields and every override file.
InitPrompt ==
    /\ InitWith(AllFiles, AllProfileFiles, AnyClock)
    /\ command \in {"ask", "show-profile"}

NextPrompt == AskStart \/ ShowProfile

SpecPrompt == InitPrompt /\ [][NextPrompt]_vars

---------------------------------------------------------------------------
(* The command run again: main() in a new process, while or after the      *)
(* earlier one ran.  The files may have been edited in between.            *)

MaxRuns == 2       \* processes started after the first one

RerunFiles ==
    { <<NoFile, NoOverride>>,
      <<ProfileFile({"timezone"}), Override(<<" ", "MY", " ", "RULES", "\n">>)>>,
      <<OddZoneFile, Override(<<"RULES">>)>>,
      <<ProfileFile(ProfileFields), NoOverride>> }

\* What the user may have made of a file between two runs.
EditedProfileFiles == {ProfileFile({"timezone", "notes"}), InvalidFile}

EditedOverrideFiles == {Override(<<"MY", " ", "RULES", "\n">>), Override(<<>>)}

RunAgain ==
    /\ pc # "start" /\ runs < MaxRuns
    /\ command \in {"ask", "init-profile", "init-system-prompt"}
    /\ runs' = runs + 1
    /\ pc' = "start"
    /\ system_instructions' = <<>>
    /\ messages' = <<>>
    /\ last_messages' = None
    /\ user_input' = <<>>
    /\ raw_line' = <<>>
    /\ g_pc' = "idle"
    /\ g_messages' = <<>>
    /\ reads' = 0
    /\ turn_start' = <<>>
    /\ output' = <<>>
    /\ CASE command = "ask" ->
              /\ prompt_arg' \in {<<>>, <<"b", "o", "o", "k">>}
              /\ clock' \in AnyClock
              /\ \E pair \in RerunFiles :
                    profile_file' = pair[1] /\ override_file' = pair[2]
         [] command = "init-profile" ->
              /\ profile_file' \in
                    {profile_file} \cup (IF profile_file.present
                                         THEN EditedProfileFiles ELSE {})
              /\ UNCHANGED <<prompt_arg, clock, override_file>>
         [] OTHER ->
              /\ override_file' \in
                    {override_file} \cup (IF override_file.present
                                          THEN EditedOverrideFiles ELSE {})
              /\ UNCHANGED <<prompt_arg, clock, profile_file>>
    /\ next_id' = 1
    /\ sent' = [id \in 1..(MaxCallIds + 1) |-> 0]
    /\ llm_calls' = 0
    /\ turns' = 0
    /\ failure' = ""
    /\ payload' = NoPayload
    /\ service_calls' = 0
    /\ UNCHANGED <<command, api_key, path, composed, qc_args>>

InitRerun ==
    /\ InitWith(RerunFiles, SomeProfileFiles, AnyClock)
    /\ command \in {"ask", "init-profile", "init-system-prompt"}

NextRerun == AskStart \/ InitProfile \/ InitSystemPrompt \/ RunAgain

SpecRerun == InitRerun /\ [][NextRerun]_vars

---------------------------------------------------------------------------
(* The claims.                                                             *)

SessionOver == command = "ask" /\ pc \in {"terminated", "crashed"}

\* A line was read at a prompt of ask in this step.
LineRead == reads' = reads + 1

\* C1: the ask session ends if and only if a line was read, at any prompt
\* of the session (the first one included), that is one of exit, quit, q
\* once trimmed and case-folded; no other input and no runtime failure
\* ends it.
C1_EndsIffExitToken ==
    [][ (~SessionOver /\ SessionOver')
        <=> (LineRead /\ Lower(Strip(raw_line')) \in ExitTokens) ]_vars

\* C2: the session leaves the prompt for a runtime submission only on a
\* non-empty line, which was appended to the history as one user message;
\* an empty or whitespace-only line starts no submission and leaves the
\* history as it was.
C2_DispatchOnlyOnText ==
    [][ (command = "ask" /\ pc = "prompt" /\ LineRead)
        => IF Strip(raw_line') = <<>>
           THEN pc' = "prompt" /\ messages' = messages
           ELSE pc' = "stream"
                => Views(messages')
                   = Views(messages) \o <<View(UserTuple(Strip(raw_line')))>> ]_vars

\* C3: a runtime failure (the stream raising, a malformed response) aborts
\* the turn only: the session is back at the prompt with the history it had
\* before the failed exchange.
C3_RuntimeFailureAbortsTurnOnly ==
    [][ (failure = "" /\ failure' \in {"transport", "malformed"})
        => (pc' = "prompt" /\ messages' = turn_start) ]_vars

\* Every tool call of every assistant message of h is followed, in the
\* order of the calls, by the tool-result messages carrying their ids.
Answered(h) ==
    \A i \in 1..Len(h) :
        \A k \in 1..Len(h[i].tool_calls) :
            /\ i + k <= Len(h)
            /\ h[i + k].role = "tool"
            /\ h[i + k].tool_call_id = h[i].tool_calls[k].id

\* Every tool-result message of h answers a call an earlier assistant
\* message of h issued.
NoOrphan(h) ==
    \A j \in 1..Len(h) :
        h[j].role = "tool"
        => \E i \in 1..(j - 1) :
              /\ h[i].role = "assistant"
              /\ \E k \in 1..Len(h[i].tool_calls) :
                    h[i].tool_calls[k].id = h[j].tool_call_id

\* C4: the session prompt is reached only with a history whose last
\* message is an assistant message without tool calls, and in which no
\* issued tool call lacks its tool-result message.
C4_PromptOnlyAfterFinalAnswer ==
    (command = "ask" /\ pc = "prompt")
    => /\ messages # <<>>
       /\ messages[Len(messages)].role = "assistant"
       /\ messages[Len(messages)].tool_calls = <<>>
       /\ Answered(messages)
       /\ \A id \in 1..(next_id - 1) :
             \E j \in 1..Len(messages) :
                messages[j].role = "tool" /\ messages[j].tool_call_id = id

C4_Witness ==
    /\ command = "ask" /\ pc = "prompt"
    /\ \E j \in 1..Len(messages) : messages[j].role = "tool"

\* C5: the tool-result messages of an assistant message follow it in the
\* order of its calls, each with the id of its call; they are all there
\* when the history is next submitted to the model and when the session
\* keeps it; no tool-result message carries an id no earlier assistant
\* message issued; and the history the session holds at the prompt has the
\* result of every call issued so far.
C5_ToolResultsInCallOrder ==
    command = "ask"
    => /\ NoOrphan(g_messages) /\ NoOrphan(messages)
       /\ Answered(messages)
       /\ g_pc \in {"agent", "end"} => Answered(g_messages)
       /\ pc = "prompt"
          => \A id \in 1..(next_id - 1) :
                \E i \in 1..Len(messages) :
                   \E k \in 1..Len(messages[i].tool_calls) :
                      /\ messages[i].tool_calls[k].id = id
                      /\ i + k <= Len(messages)
                      /\ messages[i + k].tool_call_id = id

C5_Witness ==
    /\ command = "ask" /\ g_pc = "agent"
    /\ \E i \in 1..Len(g_messages) :
          /\ Len(g_messages[i].tool_calls) = 2
          /\ i + 2 = Len(g_messages)
          /\ g_messages[i + 1].tool_call_id = g_messages[i].tool_calls[1].id
          /\ g_messages[i + 2].tool_call_id = g_messages[i].tool_calls[2].id

\* C6: the history starts as [system instructions, first user message];
\* every step leaves what it held as a prefix of what it holds, also when
\* the session adopts the list the stream returned; the system message
\* stays first.
C6_HistoryAppendOnly ==
    /\ [](messages # <<>>
          => /\ Len(messages) >= 2
             /\ View(messages[1]) = View(SystemTuple(system_instructions))
             /\ messages[2].role = "user")
    /\ [][messages = <<>> /\ messages' # <<>> => Len(messages') = 2]_vars
    /\ [][IsPrefix(Views(messages), Views(messages'))]_vars

C6_Witness ==
    /\ command = "ask" /\ pc = "prompt" /\ turns = 1
    /\ Len(messages) > Len(turn_start)
    /\ Len(turn_start) > 3

\* C7: a tool invocation failure never crashes the ask session or the
\* quick-create command: it is the content of the call's tool-result
\* message, which is in the history when it is next submitted.
C7_ToolFailureNeverCrashes ==
    /\ command \in {"ask", "quick-create"}
       => ~(pc = "crashed" /\ failure = "tool_error")
    /\ (command = "ask" /\ g_pc = "agent") => Answered(g_messages)

\* The lines of a text: text.split("\n").
RECURSIVE SplitLines(_)
SplitLines(text) ==
    IF \A i \in 1..Len(text) : text[i] # "\n" THEN <<text>>
    ELSE LET i == CHOOSE n \in 1..Len(text) :
                     text[n] = "\n" /\ \A m \in 1..(n - 1) : text[m] # "\n"
         IN  <<SubSeq(text, 1, i - 1)>> \o SplitLines(SubSeq(text, i + 1, Len(text)))

\* The override text the session uses, if any.
HasOverride ==
    override_file.present /\ override_file.readable /\ override_file.text # <<>>

HasProfile == profile_file.present /\ profile_file.valid

\* C8: the system instructions are, in this order, the override text
\* trimmed and followed by a blank line (when there is one), the role and
\* policy text, the local and the UTC timestamp, and the preference summary
\* after a blank line (when there are preferences); the generated
\* instructions are kept in full behind the override.
C8_InstructionsInFixedOrder ==
    (command = "ask" /\ pc = "stream" /\ turns = 0)
    => LET sys == system_instructions
           trimmed == Strip(override_file.text)
           skip == IF HasOverride THEN Len(trimmed) + 2 ELSE 0
           rest == SubSeq(sys, skip + 1, Len(sys))
           user_profile == load_user_profile(profile_file)
       IN  /\ Len(sys) >= skip + 20
           /\ HasOverride => SubSeq(sys, 1, skip) = trimmed \o <<"\n", "\n">>
           /\ rest[1] = RoleText
           /\ rest[2] = LocalLabel
           /\ SubSeq(rest, 3, 10) = strftime(now_local(user_profile, clock[1]))
           /\ rest[11] = "\n"
           /\ rest[12] = UtcLabel
           /\ SubSeq(rest, 13, 20) = strftime(now_utc(clock[2]))
           /\ IF HasProfile
              THEN SubSeq(rest, 21, Len(rest))
                   = <<"\n", "\n">> \o summarize_profile_for_system(profile_file.fields)
              ELSE Len(rest) = 20

C8_Witness ==
    /\ command = "ask" /\ pc = "stream"
    /\ override_file = Override(<<"\n", "A", "\n", "\n", "B", " ", "\t">>)
    /\ profile_file = ProfileFile(ProfileFields)
    /\ SubSeq(system_instructions, 1, 7) = <<"A", "\n", "\n", "B", "\n", "\n", RoleText>>

\* The fields of the summary, in its order.
FieldOrder ==
    <<"timezone", "workdays", "working_hours", "lunch", "no_meetings",
      "preferred_deep_work", "avoid_times">>

BulletLabel(f) ==
    CASE f = "timezone" -> "- Zaman dilimi: "
      [] f = "workdays" -> "- Calisma gunleri: "
      [] f = "working_hours" -> "- Calisma saatleri: "
      [] f = "lunch" -> "- Ogle arasi: "
      [] f = "no_meetings" -> "- Toplanti kacinma: "
      [] f = "preferred_deep_work" -> "- Derin odak tercihleri: "
      [] OTHER -> "- Kacinilacak saatler: "

\* C9: the summary show-profile prints is the header line and then one
\* bullet line per non-empty field among the seven of FieldOrder, in that
\* order, and nothing of the notes: one bullet line for a record with only
\* its timezone set, all seven for a fully populated record.
C9_OneBulletPerNonEmptyField ==
    (command = "show-profile" /\ pc = "done" /\ HasProfile)
    => LET fields == profile_file.fields
           lines == SplitLines(output)
           bullets == Tail(lines)
           expected == SelectSeq(FieldOrder, LAMBDA f : fields[f] # <<>>)
       IN  /\ lines[1] = <<"Kullanici Profili:">>
           /\ Len(bullets) = Len(expected)
           /\ \A i \in 1..Len(bullets) :
                 /\ i <= Len(expected)
                 /\ bullets[i][1] = BulletLabel(expected[i])
                 /\ \A n \in 1..Len(bullets[i]) : bullets[i][n] \notin {"late", "- Notlar: "}
           /\ (\A f \in ProfileFields \ {"timezone"} : fields[f] = <<>>)
                 /\ fields["timezone"] # <<>> => Len(bullets) = 1
           /\ (\A f \in ProfileFields : fields[f] # <<>>) => Len(bullets) = 7

C9_Witness ==
    /\ command = "show-profile" /\ pc = "done"
    /\ profile_file = ProfileFile(ProfileFields)
    /\ Len(SplitLines(output)) = 8

\* C10: a tool invocation that reaches the calendar service makes exactly
\* one call to it: in the session no call id is sent twice, a call whose
\* result or service error is in the history was sent once and a call
\* rejected before the service was sent never; a turn of one create-event
\* call and a final answer ends at the prompt with the payload sent once;
\* one run of quick-create or list-calendars that returns has invoked its
\* tool once and printed its result.
C10_OneServiceCallPerInvocation ==
    /\ command = "ask"
       => /\ \A id \in DOMAIN sent : sent[id] <= 1
          /\ \A j \in 1..Len(g_messages) :
                g_messages[j].role = "tool"
                => sent[g_messages[j].tool_call_id]
                   = IF g_messages[j].content
                        \in {<<"event created">>, <<"Error: ToolExecutionFailure">>}
                     THEN 1 ELSE 0
          /\ service_calls = 0
    /\ (command = "ask" /\ pc = "prompt" /\ Len(messages) = Len(turn_start) + 3)
       => LET issued == messages[Len(turn_start) + 1].tool_calls
          IN  (Len(issued) = 1 /\ ReachesService(issued[1])) => sent[issued[1].id] = 1
    /\ command = "quick-create"
       => /\ pc \in {"start", "invoke", "exit1"} => service_calls = 0
          /\ pc \in {"done", "crashed"} => service_calls = 1
          /\ pc = "done" => output = <<"Create Event: ", "event created">>
    /\ command = "list-calendars"
       => /\ pc \in {"start", "exit1"} => service_calls = 0
          /\ pc \in {"done", "crashed"} => service_calls = 1

C10_Witness ==
    /\ command = "ask" /\ pc = "prompt" /\ turns = 0
    /\ Len(messages) = 5
    /\ Len(messages[3].tool_calls) = 1
    /\ messages[4].content = <<"event created">>
    /\ sent[1] = 1 /\ next_id = 2

\* Two compositions were made from the same four inputs.
SameInputs(a, b) ==
    /\ a.now_local = b.now_local
    /\ a.now_utc = b.now_utc
    /\ a.preferences = b.preferences
    /\ a.override = b.override

IndexOf(text, token) ==
    IF \E i \in 1..Len(text) : text[i] = token
    THEN CHOOSE i \in 1..Len(text) :
            text[i] = token /\ \A k \in 1..(i - 1) : text[k] # token
    ELSE 0

\* The timestamp rendered behind a label of the system instructions.
RenderedAfter(text, label) ==
    SubSeq(text, IndexOf(text, label) + 1, IndexOf(text, label) + 8)

ParseOffset(token) ==
    CASE token = "+0300" -> 3 [] token = "+0100" -> 1 [] OTHER -> 0

\* The instant a rendered timestamp denotes, in seconds of the UTC day.
RenderedInstant(ts) ==
    (IndexOf(HourText, ts[3]) - 1 - ParseOffset(ts[8])) * 3600
    + (IndexOf(SecondText, ts[5]) - 1)

\* C12: the local and the UTC timestamp in the system instructions denote
\* the same instant to the second, whether now_local came from the
\* profile's timezone, from the system's timezone, or from the fallback
\* after a timezone name that is not known.
C12_TimestampsSameInstant ==
    (command = "ask" /\ pc = "stream" /\ turns = 0)
    => /\ IndexOf(system_instructions, LocalLabel) > 0
       /\ IndexOf(system_instructions, UtcLabel) > 0
       /\ RenderedInstant(RenderedAfter(system_instructions, LocalLabel))
          = RenderedInstant(RenderedAfter(system_instructions, UtcLabel))

\* A run of init-profile or init-system-prompt, from its start to its end.
WriterStep ==
    command \in {"init-profile", "init-system-prompt"} /\ pc = "start" /\ pc' = "done"

\* The file at the path the writer works on.
TargetFile == IF command = "init-profile" THEN profile_file ELSE override_file

\* The path the writer works on: the option, else the environment
\* variable, else the default name.
TargetPath ==
    IF path.arg # <<>> THEN path.arg
    ELSE IF path.env.set THEN path.env.text
    ELSE IF command = "init-profile" THEN <<"user_profile.yaml">>
    ELSE <<"system_prompt.md">>

\* The starter file of the command: the template without its first and
\* last line break, and one line break behind it.
StarterFile ==
    IF command = "init-profile"
    THEN [present |-> TRUE, valid |-> TRUE, fields |-> PROFILE_TEMPLATE]
    ELSE [present |-> TRUE, readable |-> TRUE,
          text |-> SubSeq(DEFAULT_SYSTEM_PROMPT_TEMPLATE, 2,
                          Len(DEFAULT_SYSTEM_PROMPT_TEMPLATE))]

\* C13: a run of init-profile or init-system-prompt leaves a file that
\* exists at the target path as it is, writes the starter file when none
\* exists, touches no other file and prints the target path in both cases;
\* run again, it changes nothing, also when the user edited the file in
\* between.
C13_WritersNeverOverwrite ==
    [][ WriterStep
        => /\ TargetFile.present => TargetFile' = TargetFile
           /\ ~TargetFile.present => TargetFile' = StarterFile
           /\ runs >= 1 => TargetFile' = TargetFile
           /\ command = "init-profile"
              => /\ override_file' = override_file
                 /\ output' = <<"Profile ready: ">> \o TargetPath
           /\ command = "init-system-prompt"
              => /\ profile_file' = profile_file
                 /\ output' = <<"System prompt ready: ">> \o TargetPath ]_vars

C13_Witness ==
    /\ command = "init-profile" /\ pc = "done" /\ runs = 1
    /\ profile_file = ProfileFile({"timezone", "notes"})
    /\ path.arg = <<>> /\ path.env.set
    /\ output = <<"Profile ready: ", "env/file">>

=============================================================================
